---- MODULE Spec2Model ----
(***************************************************************************)
(* Sweep-stream decoding of the RF Explorer tools:                         *)
(*   rfexplorer_gui.py     RFExplorerGUI  (exhaustive scan, peak hold)     *)
(*   rfexplorer_live.py    RFExplorer     (configuration parsing, init)    *)
(*   rfexplorer_record.py  RFRecorder     (latest-only scan, recording)    *)
(*                                                                         *)
(* Bytes are the integers 0..255. Positions and slices follow Python:      *)
(* the first byte of a bytes object has index 0, data[a:b] is Slice.       *)
(* Power readings -(b / 2.0) dBm are kept in half-dB units, so a reading   *)
(* is the integer -b and the -120.0 / -100.0 dBm fills are -240 / -200.    *)
(* Frequencies of the GUI are MHz; np.linspace values are kept times 111.  *)
(* One of the three scripts runs at a time: prog says which.               *)
(***************************************************************************)
EXTENDS Integers, Sequences, FiniteSets, TLC

VARIABLES
    \* the run
    prog,           \* which script runs: "gui", "live", "record"; "parse_sweep"
                    \* is the direct application of the latest-only parsers
    pc,             \* where the script is: "constructed", then its main loop
    scn,            \* the bytes the device sends in this run (a scenario)
    pos,            \* number of stream bytes the polling loop has read so far
    buffer,         \* the polling loop's buffer (self.buffer / buffer)
    \* RFExplorerGUI
    start_freq,     \* self.start_freq, MHz
    end_freq,       \* self.end_freq, MHz
    frequencies,    \* self.frequencies, times 111
    history,        \* self.history, deque(maxlen=50)
    current_sweep,  \* self.current_sweep
    peak_hold,      \* self.peak_hold
    connected,      \* self.connected
    sweep_count,    \* self.sweep_count
    sweeps_per_sec, \* self.sweeps_per_sec
    \* RFExplorer (live)
    rf_start_freq,  \* self.start_freq, MHz times 1000
    rf_end_freq,    \* self.end_freq, MHz times 1000
    rf_step_freq,   \* self.step_freq, MHz times 1000 * 112
    firmware,       \* self.firmware
    last_draw,      \* last_draw of run(): 0, or 1 once a spectrum was drawn
    \* RFRecorder
    recordings,     \* self.recordings (elapsed_sec and sweep of each entry)
    elapsed,        \* elapsed of record(), seconds
    last_record,    \* last_record of record(), seconds since the start
    clock,          \* wall-clock seconds since self.start_time
    \* history variables
    calls,          \* polls made so far
    ui_ops,         \* button presses so far
    buf_off,        \* stream offset of buffer[0]
    decoded,        \* log of the sweeps read_data decoded, in order
    peak_base,      \* len(decoded) when peak_hold was last reset
    appended_len,   \* len(buffer) right after the last append
    capped,         \* the buffer right after the last cap step
    last_op         \* the operation that made the last step, with its inputs

runVars == <<prog, pc, scn, pos, buffer>>

guiVars == <<start_freq, end_freq, frequencies, history, current_sweep, peak_hold,
             connected, sweep_count, sweeps_per_sec>>

liveVars == <<rf_start_freq, rf_end_freq, rf_step_freq, firmware, last_draw>>

recVars == <<recordings, elapsed, last_record, clock>>

histVars == <<calls, ui_ops, buf_off, decoded, peak_base, appended_len, capped, last_op>>

vars == <<runVars, guiVars, liveVars, recVars, histVars>>

----------------------------------------------------------------------------
(* Bounds of the model *)

MaxCalls == 3
MaxUiOps == 1
MaxParseFrames == 2
TotalSeconds == 2

----------------------------------------------------------------------------
(* Program constants *)

Dollar == 36
CharS == 83
SweepPoints == 112
PayloadStart == 3
FrameLen == 115
ScanAdvance == 116
GuiMaxLen == 8000
GuiRetainLen == 4000
LiveMaxLen == 5000
LiveRetainLen == 2000
RecMaxLen == 5000
RecRetainLen == 2000
HistoryMaxLen == 50
ReadChunk == 4096
InitStartFreq == 5500
InitEndFreq == 5700

SweepMarker == <<Dollar, CharS>>
CurrentFill == -200
PeakFill == -240

\* PRESETS: name -> (start MHz, end MHz)
PRESETS == { <<5500, 5700>>, <<5600, 5800>>, <<5450, 5850>>, <<5100, 5900>> }

----------------------------------------------------------------------------
(* Python bytes/list primitives *)

MinOf(S) == CHOOSE x \in S : \A y \in S : x <= y

\* data[a:b] for 0 <= a, 0 <= b
Slice(data, a, b) == SubSeq(data, a + 1, IF b < Len(data) THEN b ELSE Len(data))

\* data[a:]
SliceFrom(data, a) == SubSeq(data, a + 1, Len(data))

\* data[-n:] for n > 0
LastBytes(data, n) == IF Len(data) <= n THEN data ELSE SubSeq(data, Len(data) - n + 1, Len(data))

MatchAt(data, sub, i) == \A j \in 1..Len(sub) : data[i + j] = sub[j]

\* data.find(sub, start): lowest index >= start where sub occurs, else -1
Find(data, sub, start) ==
    LET hits == { i \in start..(Len(data) - Len(sub)) : MatchAt(data, sub, i) }
    IN  IF hits = {} THEN -1 ELSE MinOf(hits)

\* data.rfind(sub): highest index where sub occurs, else -1
RFind(data, sub) ==
    LET hits == { i \in 0..(Len(data) - Len(sub)) : MatchAt(data, sub, i) }
    IN  IF hits = {} THEN -1 ELSE CHOOSE x \in hits : \A y \in hits : y <= x

\* np.array([-(b / 2.0) for b in sweep_data]), in half-dB units
DecodeSweep(sweep_data) == [i \in 1..Len(sweep_data) |-> -sweep_data[i]]

\* np.linspace(s, e, n), each value times (n - 1)
Linspace(s, e, n) == [i \in 1..n |-> (n - 1) * s + (i - 1) * (e - s)]

\* np.full(n, v)
Full(n, v) == [i \in 1..n |-> v]

\* faulty variant: the newest sweep overwrites the held values
MaximumOverwrites(a, b) == b

\* np.maximum(a, b)
Maximum(a, b) == [i \in 1..Len(a) |-> IF a[i] >= b[i] THEN a[i] ELSE b[i]]

\* deque(maxlen=HistoryMaxLen).append(x)
DequeAppend(d, x) ==
    IF Len(d) >= HistoryMaxLen THEN Append(Tail(d), x) ELSE Append(d, x)

----------------------------------------------------------------------------
(* Python str primitives, on sequences of ASCII codes *)

Comma == 44
Plus == 43
Minus == 45
Underscore == 95
Digit0 == 48
Digit9 == 57
AsciiLimit == 128

Digits == Digit0..Digit9

\* the ASCII characters int() and str.strip() treat as whitespace
Whitespace == (9..13) \cup (28..32)

\* bytes.decode('ascii', errors='ignore')
DecodeAsciiIgnore(bs) ==
    LET IsAscii(b) == b < AsciiLimit IN SelectSeq(bs, IsAscii)

\* data.split(sep)[0]
BeforeFirst(data, sep) ==
    LET i == Find(data, sep, 0) IN IF i = -1 THEN data ELSE Slice(data, 0, i)

\* text.replace(sub, '')
RECURSIVE RemoveAll(_, _)
RemoveAll(text, sub) ==
    LET i == Find(text, sub, 0)
    IN  IF i = -1 THEN text
        ELSE Slice(text, 0, i) \o RemoveAll(SliceFrom(text, i + Len(sub)), sub)

\* text.split(',')
RECURSIVE SplitOn(_, _)
SplitOn(text, sep) ==
    LET i == Find(text, <<sep>>, 0)
    IN  IF i = -1 THEN <<text>>
        ELSE <<Slice(text, 0, i)>> \o SplitOn(SliceFrom(text, i + 1), sep)

\* text.strip()
RECURSIVE Strip(_)
Strip(text) ==
    IF text = << >> THEN text
    ELSE IF Head(text) \in Whitespace THEN Strip(Tail(text))
    ELSE IF text[Len(text)] \in Whitespace THEN Strip(SubSeq(text, 1, Len(text) - 1))
    ELSE text

RECURSIVE DigitsValue(_, _)
DigitsValue(text, acc) ==
    IF text = << >> THEN acc
    ELSE IF Head(text) = Underscore THEN DigitsValue(Tail(text), acc)
    ELSE DigitsValue(Tail(text), 10 * acc + (Head(text) - Digit0))

\* int(text): [ok |-> FALSE] stands for the ValueError. Surrounding
\* whitespace is dropped, one sign is allowed, and single underscores may
\* separate digits.
IntOf(text) ==
    LET t      == Strip(text)
        signed == t # << >> /\ Head(t) \in {Plus, Minus}
        body   == IF signed THEN Tail(t) ELSE t
        valid  == /\ body # << >>
                  /\ \A i \in 1..Len(body) : body[i] \in Digits \cup {Underscore}
                  /\ body[1] \in Digits
                  /\ body[Len(body)] \in Digits
                  /\ \A i \in 1..(Len(body) - 1) :
                        ~(body[i] = Underscore /\ body[i + 1] = Underscore)
    IN  IF ~valid THEN [ok |-> FALSE, val |-> 0]
        ELSE [ok |-> TRUE,
              val |-> IF signed /\ Head(t) = Minus
                      THEN -DigitsValue(body, 0) ELSE DigitsValue(body, 0)]

----------------------------------------------------------------------------
(* The device: byte streams it may send after the input queue was cleared *)

CR == 13
LF == 10
CRLF == <<CR, LF>>

Junk(n) == [i \in 1..n |-> 0]

\* the readings of test sweep k: distinct per k, never holding the marker
Payload(k) == [i \in 1..SweepPoints |-> (16 * k + i) % 256]

\* '$S', the header byte, the readings
Frame(k) == SweepMarker \o <<SweepPoints>> \o Payload(k)

\* a frame whose readings hold the two marker bytes at payload index 10
FrameWithMarkerInside(k) ==
    SweepMarker \o <<SweepPoints>> \o
    [i \in 1..SweepPoints |-> IF i = 10 THEN Dollar ELSE IF i = 11 THEN CharS ELSE Payload(k)[i]]

\* the readings of a weak sweep k: bytes 241..255, below -120 dBm
WeakPayload(k) == [i \in 1..SweepPoints |-> 241 + ((k + i) % 15)]

WeakFrame(k) == SweepMarker \o <<SweepPoints>> \o WeakPayload(k)

GuiScenarios == { [kind |-> "five"], [kind |-> "mixed"], [kind |-> "weak"] }

\* the fields a configuration line may start with: b'5500000', b'5700000',
\* b'abc' and the empty field
FieldSet ==
    { <<53, 53, 48, 48, 48, 48, 48>>, <<53, 55, 48, 48, 48, 48, 48>>, <<97, 98, 99>>, << >> }

\* amp_top and amp_bottom as the device sends them: b'0000', b'-120'
AmpField(i) == IF i = 3 THEN <<48, 48, 48, 48>> ELSE <<45, 49, 50, 48>>

\* the configuration lines the device may send: four fields as documented,
\* or only two, with or without the line terminator, a single field, none;
\* or no configuration line at all
LiveScenarios ==
    { [kind |-> "cfg", nf |-> 4, f1 |-> f1, f2 |-> f2, term |-> TRUE] :
        f1 \in FieldSet, f2 \in FieldSet }
    \cup { [kind |-> "cfg", nf |-> 2, f1 |-> f1, f2 |-> f2, term |-> term] :
        f1 \in FieldSet, f2 \in FieldSet, term \in BOOLEAN }
    \cup { [kind |-> "cfg", nf |-> 1, f1 |-> f1, f2 |-> << >>, term |-> TRUE] :
        f1 \in FieldSet }
    \cup { [kind |-> "cfg", nf |-> 0, f1 |-> << >>, f2 |-> << >>, term |-> TRUE],
           [kind |-> "quiet"] }

ConfigFields(s) ==
    [i \in 1..s.nf |-> IF i = 1 THEN s.f1 ELSE IF i = 2 THEN s.f2 ELSE AmpField(i)]

RECURSIVE Join(_, _)
Join(fields, sep) ==
    IF fields = << >> THEN << >>
    ELSE IF Len(fields) = 1 THEN fields[1]
    ELSE fields[1] \o <<sep>> \o Join(Tail(fields), sep)

\* b'#C2-F:' and the fields, comma separated
ConfigText(s) == <<35, 67, 50, 45, 70, 58>> \o Join(ConfigFields(s), 44)

\* the configuration line as it appears between the sweeps while streaming
ConfigLine(s) == ConfigText(s) \o (IF s.term THEN CRLF ELSE << >>)

\* b'RF Explorer\r\n'
IdentityLine == <<82, 70, 32, 69, 120, 112, 108, 111, 114, 101, 114>> \o CRLF

\* what the device sends during init_device of the live script: its identity
\* line and a whole configuration line
InitRx(s) == IF s.kind = "cfg" THEN IdentityLine \o ConfigText(s) \o CRLF ELSE << >>

\* where the first timed read of init_device may end: before everything,
\* after the identity line, inside the configuration line, after everything
InitSplits(rx) ==
    { k \in {0, Len(IdentityLine), Len(IdentityLine) + 8} : k <= Len(rx) } \cup {Len(rx)}

\* streams longer than the caps, and one that fills the GUI's buffer to the brim
LongScenarios == { [kind |-> "long"], [kind |-> "brim"] }

Stream(s) ==
    CASE s.kind = "five"  -> Frame(1) \o Frame(2) \o Frame(3) \o Frame(4) \o Frame(5)
      [] s.kind = "mixed" -> Junk(1) \o FrameWithMarkerInside(1) \o Frame(2) \o CRLF \o Frame(3) \o CRLF
      [] s.kind = "weak"  -> WeakFrame(1) \o CRLF
      [] s.kind = "long"  -> Junk(GuiMaxLen) \o Frame(1) \o CRLF \o Frame(2) \o CRLF
      [] s.kind = "brim"  -> Junk(GuiMaxLen)
      [] s.kind = "cfg"   -> Frame(1) \o CRLF \o ConfigLine(s) \o Frame(2) \o CRLF
      [] s.kind = "quiet" -> Frame(1) \o CRLF \o Frame(2) \o CRLF
      [] s.kind = "partial" -> Junk(1) \o Slice(Frame(1), 0, FrameLen \div 2)
      [] s.kind = "silent" -> << >>
      [] OTHER            -> << >>

\* the sizes of the reads tried: n new bytes are waiting when the poll runs
ReadSizes(s, rest) ==
    IF s \in LongScenarios
    THEN { n \in {0, FrameLen + 2, ReadChunk, LiveMaxLen} : n <= rest } \cup {rest}
    ELSE { n \in {0, FrameLen + 2} : n <= rest } \cup {rest}

----------------------------------------------------------------------------
(* RFExplorerGUI *)

\* faulty variant: the cap keeps the oldest bytes, buffer[:retain_len]
CapKeepsHead(buf, max_len, retain_len) ==
    IF Len(buf) > max_len THEN Slice(buf, 0, retain_len) ELSE buf

\* if len(self.buffer) > max_len: self.buffer = self.buffer[-retain_len:]
CapIfOversized(buf, max_len, retain_len) ==
    IF Len(buf) > max_len THEN LastBytes(buf, retain_len) ELSE buf

\* the while True loop of read_data: from scan position idx0, with the sweeps
\* found so far; returns the idx the loop breaks with and the sweeps decoded
RECURSIVE ScanSweeps(_, _, _)
ScanSweeps(buf, idx0, found) ==
    LET idx == Find(buf, SweepMarker, idx0)
    IN  IF idx = -1 \/ Len(buf) < idx + FrameLen
        THEN [idx |-> idx, found |-> found]
        ELSE LET sweep_data == Slice(buf, idx + PayloadStart, idx + FrameLen)
             IN  ScanSweeps(buf, idx + ScanAdvance,
                            IF Len(sweep_data) = SweepPoints
                            THEN Append(found, [at |-> idx, sweep |-> DecodeSweep(sweep_data)])
                            ELSE found)

\* faulty variant: the trim guarded by idx != 0, so that idx = -1 keeps buffer[-1:]
TrimUnlessZero(buf, idx) ==
    IF idx > 0 THEN SliceFrom(buf, idx) ELSE IF idx = -1 THEN LastBytes(buf, 1) ELSE buf

\* if idx > 0: self.buffer = self.buffer[idx:]
TrimProcessed(buf, idx) == IF idx > 0 THEN SliceFrom(buf, idx) ELSE buf

RECURSIVE FoldPeak(_, _)
FoldPeak(peak, found) ==
    IF found = << >> THEN peak
    ELSE FoldPeak(Maximum(peak, Head(found).sweep), Tail(found))

RECURSIVE FoldHistory(_, _)
FoldHistory(h, found) ==
    IF found = << >> THEN h
    ELSE FoldHistory(DequeAppend(h, Head(found).sweep), Tail(found))

\* self.connected after read_data
ConnectedAfterRead(was, updated) == IF updated THEN TRUE ELSE was

\* faulty variant: set_frequency drops the flag together with the buffer
ConnectedDropped(was) == FALSE

\* self.connected after set_frequency (not assigned there)
ConnectedAfterSetFrequency(was) == was

\* faulty variant: set_frequency forgets to clear the history
HistoryKept(h) == h

\* self.history.clear()
HistoryCleared(h) == << >>

\* the fields of the scripts that are not running
GuiIdle ==
    /\ start_freq = 0 /\ end_freq = 0 /\ frequencies = << >> /\ history = << >>
    /\ current_sweep = << >> /\ peak_hold = << >> /\ connected = FALSE
    /\ sweep_count = 0 /\ sweeps_per_sec = 0

LiveIdle ==
    /\ rf_start_freq = 0 /\ rf_end_freq = 0 /\ rf_step_freq = 0
    /\ firmware = << >> /\ last_draw = 0

RecIdle ==
    /\ recordings = << >> /\ elapsed = 0 /\ last_record = 0 /\ clock = 0

\* RFExplorerGUI.__init__
GuiInit(scenarios) ==
    /\ prog = "gui"
    /\ pc = "constructed"
    /\ scn \in scenarios
    /\ pos = 0
    /\ buffer = << >>
    /\ start_freq = InitStartFreq
    /\ end_freq = InitEndFreq
    /\ frequencies = Linspace(InitStartFreq, InitEndFreq, SweepPoints)
    /\ history = << >>
    /\ current_sweep = Full(SweepPoints, CurrentFill)
    /\ peak_hold = Full(SweepPoints, PeakFill)
    /\ connected = FALSE
    /\ sweep_count = 0
    /\ sweeps_per_sec = 0
    /\ calls = 0
    /\ ui_ops = 0
    /\ buf_off = 0
    /\ decoded = << >>
    /\ peak_base = 0
    /\ appended_len = 0
    /\ capped = << >>
    /\ last_op = [op |-> "construct"]
    /\ LiveIdle
    /\ RecIdle

\* set_frequency(start_mhz, end_mhz); the command written to the device is
\* not part of the program's state
SetFrequencyEffect(s, e) ==
    /\ start_freq' = s
    /\ end_freq' = e
    /\ frequencies' = Linspace(s, e, SweepPoints)
    /\ peak_hold' = Full(SweepPoints, PeakFill)
    /\ history' = HistoryCleared(history)
    /\ buffer' = << >>
    /\ last_op' = [op |-> "set_frequency", s |-> s, e |-> e]
    /\ connected' = ConnectedAfterSetFrequency(connected)
    /\ buf_off' = pos
    /\ peak_base' = Len(decoded)
    /\ UNCHANGED <<prog, scn, pos, current_sweep, sweep_count, sweeps_per_sec,
                   calls, decoded, appended_len, capped, liveVars, recVars>>

\* RFExplorerGUI.init_device, first statement of run(); the stream is what
\* the device sends after reset_input_buffer
GuiInitDevice ==
    /\ prog = "gui"
    /\ pc = "constructed"
    /\ pc' = "streaming"
    /\ ui_ops' = ui_ops
    /\ SetFrequencyEffect(InitStartFreq, InitEndFreq)

\* a preset button: cb(event) -> self.set_frequency(s, e)
SetFrequency(s, e) ==
    /\ prog = "gui"
    /\ pc = "streaming"
    /\ ui_ops < MaxUiOps
    /\ ui_ops' = ui_ops + 1
    /\ pc' = pc
    /\ SetFrequencyEffect(s, e)

\* the Reset Peak button: self.peak_hold.fill(-120)
ResetPeak ==
    /\ prog = "gui"
    /\ pc = "streaming"
    /\ ui_ops < MaxUiOps
    /\ ui_ops' = ui_ops + 1
    /\ peak_hold' = Full(SweepPoints, PeakFill)
    /\ peak_base' = Len(decoded)
    /\ last_op' = [op |-> "reset_peak"]
    /\ UNCHANGED <<prog, pc, scn, pos, buffer, start_freq, end_freq, frequencies,
                   history, current_sweep, connected, sweep_count, sweeps_per_sec,
                   calls, buf_off, decoded, appended_len, capped, liveVars, recVars>>

\* read_data with n new bytes waiting; second_passed is the outcome of
\* now - self.last_sweep_time >= 1.0
ReadData(n, second_passed) ==
    /\ prog = "gui"
    /\ pc = "streaming"
    /\ calls < MaxCalls
    /\ LET new_data == Slice(Stream(scn), pos, pos + n)
           appended == buffer \o new_data
           buf      == CapIfOversized(appended, GuiMaxLen, GuiRetainLen)
           scan     == ScanSweeps(buf, 0, << >>)
           found    == scan.found
           updated  == found # << >>
           off      == buf_off + (Len(appended) - Len(buf))
       IN  /\ pos' = pos + n
           /\ appended_len' = Len(appended)
           /\ capped' = buf
           /\ buffer' = TrimProcessed(buf, scan.idx)
           /\ buf_off' = off + (Len(buf) - Len(buffer'))
           /\ current_sweep' = IF updated THEN found[Len(found)].sweep ELSE current_sweep
           /\ peak_hold' = FoldPeak(peak_hold, found)
           /\ history' = FoldHistory(history, found)
           /\ connected' = ConnectedAfterRead(connected, updated)
           /\ decoded' = decoded \o
                  [i \in 1..Len(found) |->
                      [call |-> calls + 1, at |-> off + found[i].at]]
           /\ IF updated /\ second_passed
              THEN /\ sweeps_per_sec' = sweep_count + Len(found)
                   /\ sweep_count' = 0
              ELSE /\ sweeps_per_sec' = sweeps_per_sec
                   /\ sweep_count' = sweep_count + Len(found)
    /\ calls' = calls + 1
    /\ peak_base' = peak_base
    /\ last_op' = [op |-> "read_data", n |-> n]
    /\ UNCHANGED <<prog, pc, scn, start_freq, end_freq, frequencies, ui_ops,
                   liveVars, recVars>>

NextGUI ==
    \/ GuiInitDevice
    \/ \E p \in PRESETS : SetFrequency(p[1], p[2])
    \/ ResetPeak
    \/ \E n \in ReadSizes(scn, Len(Stream(scn)) - pos), second_passed \in BOOLEAN :
          ReadData(n, second_passed)

----------------------------------------------------------------------------
(* RFExplorer (rfexplorer_live.py) *)

KHzPerMHz == 1000
DefaultStartFreq == 2400
DefaultEndFreq == 2500

\* b'#C2-F:'
ConfigMarker == <<35, 67, 50, 45, 70, 58>>

\* b'RF Explorer'
IdentityMarker == <<82, 70, 32, 69, 120, 112, 108, 111, 114, 101, 114>>

\* the values of start_freq, end_freq and step_freq in the model's units
ConfigOf(start_khz, end_khz) ==
    [start_freq |-> start_khz, end_freq |-> end_khz, step_freq |-> end_khz - start_khz]

\* Default für 2.4G Modul
DefaultConfig == ConfigOf(DefaultStartFreq * KHzPerMHz, DefaultEndFreq * KHzPerMHz)

\* parse_config(data) with the object's fields cur: the value returned and
\* the fields afterwards. The bare except swallows the ValueError of int(),
\* after whatever was assigned before it was raised.
ParseConfig(data, cur) ==
    LET idx == Find(data, ConfigMarker, 0)
    IN  IF idx = -1 THEN [ret |-> FALSE, cfg |-> cur]
        ELSE
        LET line  == DecodeAsciiIgnore(BeforeFirst(SliceFrom(data, idx), CRLF))
            parts == SplitOn(RemoveAll(line, ConfigMarker), Comma)
        IN  IF Len(parts) < 2 THEN [ret |-> FALSE, cfg |-> cur]
            ELSE
            LET first == IntOf(parts[1])
                second == IntOf(parts[2])
            IN  IF ~first.ok THEN [ret |-> FALSE, cfg |-> cur]
                ELSE IF ~second.ok
                THEN [ret |-> FALSE, cfg |-> [cur EXCEPT !.start_freq = first.val]]
                ELSE [ret |-> TRUE, cfg |-> ConfigOf(first.val, second.val)]

\* RFExplorer.parse_sweep(data): the while True loop from scan position idx0,
\* last being the last sweep appended to sweeps so far
RECURSIVE LiveScan(_, _, _)
LiveScan(data, idx0, last) ==
    LET idx == Find(data, SweepMarker, idx0)
    IN  IF idx = -1 THEN last
        ELSE LET sweep_data == Slice(data, idx + PayloadStart, idx + FrameLen)
             IN  LiveScan(data, idx + 1,
                          IF Len(data) > idx + FrameLen /\ Len(sweep_data) = SweepPoints
                          THEN [ok |-> TRUE, sweep |-> DecodeSweep(sweep_data)]
                          ELSE last)

\* return sweeps[-1] if sweeps else None
LiveParseSweep(data) == LiveScan(data, 0, [ok |-> FALSE, sweep |-> << >>])

\* the firmware text init_device extracts from the first read
FirmwareOf(data, was) ==
    LET idx == Find(data, IdentityMarker, 0)
        end == IF idx = -1 THEN -1 ELSE Find(data, CRLF, idx)
    IN  IF idx # -1 /\ end > idx THEN DecodeAsciiIgnore(Slice(data, idx, end)) ELSE was

\* RFExplorer.__init__
LiveInit(scenarios) ==
    /\ prog = "live"
    /\ pc = "constructed"
    /\ scn \in scenarios
    /\ pos = 0
    /\ buffer = << >>
    /\ rf_start_freq = 0
    /\ rf_end_freq = 0
    /\ rf_step_freq = 0
    /\ firmware = << >>
    /\ last_draw = 0
    /\ calls = 0
    /\ ui_ops = 0
    /\ buf_off = 0
    /\ decoded = << >>
    /\ peak_base = 0
    /\ appended_len = 0
    /\ capped = << >>
    /\ last_op = [op |-> "construct"]
    /\ GuiIdle
    /\ RecIdle

\* init_device: of the bytes InitRx(scn) the device sends between the queue
\* reset and the end of the second timed read, the first k arrive in time for
\* self.ser.read(2000), the others are returned by self.ser.read(1000)
LiveInitDevice(k) ==
    /\ prog = "live"
    /\ pc = "constructed"
    /\ LET rx      == InitRx(scn)
           first   == Slice(rx, 0, k)
           second  == SliceFrom(rx, k)
           parsed  == ParseConfig(second, ConfigOf(rf_start_freq, rf_end_freq))
           cfg     == IF parsed.ret THEN parsed.cfg ELSE DefaultConfig
       IN  /\ firmware' = FirmwareOf(first, firmware)
           /\ rf_start_freq' = cfg.start_freq
           /\ rf_end_freq' = cfg.end_freq
           /\ rf_step_freq' = cfg.step_freq
           /\ last_op' = [op |-> "init_device", k |-> k, ret |-> parsed.ret]
    /\ pc' = "running"
    /\ UNCHANGED <<prog, scn, pos, buffer, last_draw, calls, ui_ops, buf_off, decoded, peak_base,
                   appended_len, capped, guiVars, recVars>>

\* one iteration of the while True loop of run() with n bytes waiting;
\* gate is the outcome of time.time() - last_draw > 0.1 once last_draw is set
LivePoll(n, gate) ==
    /\ prog = "live"
    /\ pc = "running"
    /\ calls < MaxCalls
    /\ calls' = calls + 1
    /\ IF n = 0
       THEN /\ last_op' = [op |-> "poll", n |-> 0, parsed |-> FALSE, ret |-> FALSE]
            /\ UNCHANGED <<pos, buffer, liveVars, buf_off, appended_len, capped>>
       ELSE LET new_data == Slice(Stream(scn), pos, pos + n)
                appended == buffer \o new_data
                buf      == CapIfOversized(appended, LiveMaxLen, LiveRetainLen)
                sweep    == LiveParseSweep(buf)
                drawn    == sweep.ok /\ (last_draw = 0 \/ gate)
                cur      == [start_freq |-> rf_start_freq, end_freq |-> rf_end_freq,
                             step_freq |-> rf_step_freq]
                parsed   == IF drawn THEN ParseConfig(buf, cur) ELSE [ret |-> FALSE, cfg |-> cur]
            IN  /\ pos' = pos + n
                /\ appended_len' = Len(appended)
                /\ capped' = buf
                /\ buffer' = buf
                /\ buf_off' = buf_off + (Len(appended) - Len(buf))
                /\ last_draw' = IF drawn THEN 1 ELSE last_draw
                /\ rf_start_freq' = parsed.cfg.start_freq
                /\ rf_end_freq' = parsed.cfg.end_freq
                /\ rf_step_freq' = parsed.cfg.step_freq
                /\ firmware' = firmware
                /\ last_op' = [op |-> "poll", n |-> n, parsed |-> drawn, ret |-> parsed.ret]
    /\ UNCHANGED <<prog, pc, scn, ui_ops, decoded, peak_base, guiVars, recVars>>

NextLive ==
    \/ \E k \in InitSplits(InitRx(scn)) : LiveInitDevice(k)
    \/ \E n \in ReadSizes(scn, Len(Stream(scn)) - pos), gate \in BOOLEAN : LivePoll(n, gate)

----------------------------------------------------------------------------
(* Latest-only parsing: RFExplorerGUI.parse_sweep, RFRecorder.parse_sweep *)

\* RFExplorerGUI.parse_sweep(data); [ok |-> FALSE] stands for None
GuiParseSweep(data) ==
    LET idx == RFind(data, SweepMarker)
        sweep_data == Slice(data, idx + PayloadStart, idx + FrameLen)
    IN  IF idx >= 0 /\ Len(data) > idx + FrameLen /\ Len(sweep_data) = SweepPoints
        THEN [ok |-> TRUE, sweep |-> DecodeSweep(sweep_data)]
        ELSE [ok |-> FALSE, sweep |-> << >>]

\* RFRecorder.parse_sweep from the idx that data.rfind(b'$S') gave
RecorderParseAt(data, idx) ==
    LET sweep_data == Slice(data, idx + PayloadStart, idx + FrameLen)
    IN  IF idx >= 0 /\ Len(data) > idx + FrameLen /\ Len(sweep_data) = SweepPoints
        THEN [ok |-> TRUE, sweep |-> DecodeSweep(sweep_data)]
        ELSE [ok |-> FALSE, sweep |-> << >>]

\* RFRecorder.parse_sweep(data); [ok |-> FALSE] stands for None
RecorderParseSweep(data) ==
    CHOOSE out \in { RecorderParseAt(data, idx) : idx \in { RFind(data, SweepMarker) } } : TRUE

RECURSIVE Frames(_)
Frames(n) == IF n = 0 THEN << >> ELSE Frames(n - 1) \o Frame(n)

\* the buffers the parsers are applied to: every stretch, from the first or
\* the second byte on, of a junk byte, back-to-back frames and a junk byte
ParseInputs ==
    LET S == Junk(1) \o Frames(MaxParseFrames) \o Junk(1)
    IN  { Slice(S, a, b) : a \in 0..1, b \in 1..Len(S) }

InitParse ==
    /\ prog = "parse_sweep"
    /\ pc = "constructed"
    /\ scn = [kind |-> "none"]
    /\ pos = 0
    /\ buffer \in ParseInputs
    /\ calls = 0
    /\ ui_ops = 0
    /\ buf_off = 0
    /\ decoded = << >>
    /\ peak_base = 0
    /\ appended_len = 0
    /\ capped = << >>
    /\ last_op = [op |-> "construct"]
    /\ GuiIdle
    /\ LiveIdle
    /\ RecIdle

ApplyGuiParseSweep ==
    /\ prog = "parse_sweep"
    /\ pc = "constructed"
    /\ pc' = "applied"
    /\ last_op' = [op |-> "parse_sweep", of |-> "gui", out |-> GuiParseSweep(buffer)]
    /\ UNCHANGED <<prog, scn, pos, buffer, calls, ui_ops, buf_off, decoded, peak_base, appended_len,
                   capped, guiVars, liveVars, recVars>>

ApplyRecorderParseSweep ==
    /\ prog = "parse_sweep"
    /\ pc = "constructed"
    /\ pc' = "applied"
    /\ last_op' = [op |-> "parse_sweep", of |-> "record", out |-> RecorderParseSweep(buffer)]
    /\ UNCHANGED <<prog, scn, pos, buffer, calls, ui_ops, buf_off, decoded, peak_base, appended_len,
                   capped, guiVars, liveVars, recVars>>

NextParse ==
    \/ ApplyGuiParseSweep
    \/ ApplyRecorderParseSweep

----------------------------------------------------------------------------
(* RFRecorder (rfexplorer_record.py) *)

IntervalSeconds == 1
EpochZero == -1700000000

\* the wall clock is followed one second past the requested duration
MaxClock == TotalSeconds + 1

\* RFRecorder.__init__
RecInit(scenarios) ==
    /\ prog = "record"
    /\ pc = "constructed"
    /\ scn \in scenarios
    /\ pos = 0
    /\ buffer = << >>
    /\ recordings = << >>
    /\ elapsed = 0
    /\ last_record = 0
    /\ clock = 0
    /\ calls = 0
    /\ ui_ops = 0
    /\ buf_off = 0
    /\ decoded = << >>
    /\ peak_base = 0
    /\ appended_len = 0
    /\ capped = << >>
    /\ last_op = [op |-> "construct"]
    /\ GuiIdle
    /\ LiveIdle

\* record() up to the while loop: self.start_time = now, the input queue is
\* reset, buffer = b'', elapsed = 0, last_record = 0 (time.time() of 1970)
RecordStart ==
    /\ prog = "record"
    /\ pc = "constructed"
    /\ pc' = "recording"
    /\ buffer' = << >>
    /\ elapsed' = 0
    /\ last_record' = EpochZero
    /\ clock' = 0
    /\ last_op' = [op |-> "record"]
    /\ UNCHANGED <<prog, scn, pos, recordings, calls, ui_ops, buf_off, decoded, peak_base,
                   appended_len, capped, guiVars, liveVars>>

\* one iteration of while elapsed < total_seconds, with n bytes waiting: the
\* device delivers its stream in at most MaxCalls reads, the loop goes on
\* polling after that (calls then stays at MaxCalls); odd is the parity of
\* the iteration. The locals of the iteration (buffer after the append,
\* after the cap, sweep, the test of the if) are each computed once.
RecordPoll(n) ==
    /\ prog = "record"
    /\ pc = "recording"
    /\ elapsed < TotalSeconds
    /\ n > 0 => calls < MaxCalls
    /\ calls' = IF calls < MaxCalls THEN calls + 1 ELSE calls
    /\ \E appended \in { buffer \o Slice(Stream(scn), pos, pos + n) } :
       \E buf \in { IF n > 0 THEN CapIfOversized(appended, RecMaxLen, RecRetainLen)
                    ELSE buffer } :
       \E sweep \in { RecorderParseSweep(buf) } :
       \E due \in { sweep.ok /\ clock - last_record >= IntervalSeconds } :
           /\ pos' = pos + n
           /\ buffer' = buf
           /\ buf_off' = buf_off + (Len(appended) - Len(buf))
           /\ appended_len' = IF n > 0 THEN Len(appended) ELSE appended_len
           /\ capped' = IF n > 0 THEN buf ELSE capped
           /\ recordings' = IF due
                            THEN Append(recordings, [elapsed_sec |-> elapsed, sweep |-> sweep.sweep])
                            ELSE recordings
           /\ last_record' = IF due THEN clock ELSE last_record
           /\ elapsed' = IF due THEN clock ELSE elapsed
           /\ last_op' = [op |-> "record_poll", n |-> n, recorded |-> due,
                          odd |-> ~(last_op.op = "record_poll" /\ last_op.odd)]
    /\ UNCHANGED <<prog, pc, scn, clock, ui_ops, decoded, peak_base, guiVars, liveVars>>

\* the while condition fails: record() prints the count and returns
RecordFinish ==
    /\ prog = "record"
    /\ pc = "recording"
    /\ ~(elapsed < TotalSeconds)
    /\ pc' = "done"
    /\ last_op' = [op |-> "return"]
    /\ UNCHANGED <<prog, scn, pos, buffer, recVars, calls, ui_ops, buf_off, decoded, peak_base,
                   appended_len, capped, guiVars, liveVars>>

\* a second of wall-clock time passes
Tick ==
    /\ prog = "record"
    /\ pc = "recording"
    /\ clock < MaxClock
    /\ clock' = clock + 1
    /\ UNCHANGED <<runVars, recordings, elapsed, last_record, histVars, guiVars, liveVars>>

NextRecord ==
    \/ RecordStart
    \/ \E n \in ReadSizes(scn, Len(Stream(scn)) - pos) : RecordPoll(n)
    \/ RecordFinish
    \/ Tick

----------------------------------------------------------------------------
(* Specifications *)

\* the GUI script on short streams, with its buttons
Init == GuiInit(GuiScenarios)

Next == NextGUI

Spec == Init /\ [][Next]_vars

\* the live script
InitLive == LiveInit(LiveScenarios)

SpecLive == InitLive /\ [][NextLive]_vars

\* the latest-only parsers applied to buffers
SpecParse == InitParse /\ [][NextParse]_vars

\* the polling loops of the three scripts on streams longer than their caps
InitCap ==
    \/ GuiInit(LongScenarios)
    \/ LiveInit(LongScenarios)
    \/ RecInit(LongScenarios)

NextCap ==
    \/ GuiInitDevice
    \/ \E n \in ReadSizes(scn, Len(Stream(scn)) - pos), second_passed \in BOOLEAN :
          ReadData(n, second_passed)
    \/ NextLive
    \/ NextRecord

SpecCap == InitCap /\ [][NextCap]_vars

\* the recorder on a device that sends two sweeps, one that stops part-way
\* through a frame and one that sends nothing
RecScenarios == { [kind |-> "quiet"], [kind |-> "partial"], [kind |-> "silent"] }

InitRec == RecInit(RecScenarios)

\* record() runs on: the statement the program is at is executed, and
\* wall-clock time passes
FairRecord ==
    /\ WF_vars(RecordStart)
    /\ WF_vars(\E n \in ReadSizes(scn, Len(Stream(scn)) - pos) : RecordPoll(n))
    /\ WF_vars(RecordFinish)
    /\ WF_vars(Tick)

SpecRec == InitRec /\ [][NextRecord]_vars /\ FairRecord

----------------------------------------------------------------------------
(* Properties of RFExplorerGUI *)

\* where the sweep frames of a scenario start in its stream
FrameStarts(s) ==
    CASE s.kind = "five"  -> { FrameLen * k : k \in 0..4 }
      [] s.kind = "mixed" -> { 1, 1 + FrameLen, 1 + 2 * FrameLen + 2 }
      [] s.kind = "weak"  -> { 0 }
      [] OTHER            -> { }

\* the stream offsets of the sweeps decoded so far
DecodedAt == { decoded[i].at : i \in 1..Len(decoded) }

\* the sweeps decoded so far, each with the stream offset of its frame; the
\* history holds them in order while no button was pressed and it is not full
DecodedFrames ==
    { [at |-> decoded[i].at, sweep |-> history[i]] : i \in 1..Len(decoded) }

\* what a single read_data call decodes when it receives all of the stream
OneShotFrames(s) ==
    LET found == ScanSweeps(CapIfOversized(Stream(s), GuiMaxLen, GuiRetainLen), 0, << >>).found
    IN  { found[i] : i \in 1..Len(found) }

GuiReadsOnly == prog = "gui" /\ pc = "streaming" /\ ui_ops = 0

\* C1: five back-to-back frames delivered over three read_data calls give
\* exactly five sweeps in the history, one per frame, in stream order, each
\* the decoding of its frame's readings.
C1_FiveFramesFiveSweeps ==
    (GuiReadsOnly /\ scn.kind = "five" /\ calls = 3 /\ pos = Len(Stream(scn)))
    => /\ history = [k \in 1..5 |-> DecodeSweep(Payload(k))]
       /\ [i \in 1..Len(decoded) |-> decoded[i].at] = [k \in 1..5 |-> FrameLen * (k - 1)]

\* C2: chunking independence: once all of the stream has been delivered, in
\* whatever chunks, the set of frames decoded over all calls (start offset and
\* readings) is the set a single call decodes from the whole stream.
C2_ChunkingIndependence ==
    (GuiReadsOnly /\ scn \notin LongScenarios /\ pos = Len(Stream(scn)))
    => /\ Len(history) = Len(decoded)
       /\ DecodedFrames = OneShotFrames(scn)

\* C2 witness: a stream delivered in three chunks, the first two cutting
\* frames, with sweeps decoded in more than one call
C2_Witness ==
    /\ GuiReadsOnly /\ pos = Len(Stream(scn)) /\ calls = 3
    /\ last_op.op = "read_data" /\ last_op.n > 0 /\ last_op.n < Len(Stream(scn)) - FrameLen
    /\ \E i, j \in 1..Len(decoded) : decoded[i].call # decoded[j].call

\* C3: after every read_data call no byte of a decoded frame is left in the
\* buffer, and no frame is decoded by more than one call.
C3_NoFrameDecodedTwice ==
    (prog = "gui" /\ ui_ops = 0)
    => /\ \A i \in 1..Len(decoded) : decoded[i].at + FrameLen <= buf_off
       /\ \A i, j \in 1..Len(decoded) :
             decoded[i].at = decoded[j].at => decoded[i].call = decoded[j].call

\* C4: a frame whose marker has arrived but whose readings are incomplete
\* stays in the buffer from its marker on and is not decoded, and the call
\* that receives its remaining bytes decodes it.
C4_TruncatedFrameDecodedLater ==
    [][ \A a \in FrameStarts(scn) :
          (GuiReadsOnly /\ a + 2 <= pos /\ pos < a + FrameLen)
          => /\ buf_off <= a
             /\ a \notin DecodedAt
             /\ (calls' = calls + 1 /\ pos' >= a + FrameLen)
                => \E i \in 1..Len(decoded') :
                      decoded'[i].at = a /\ decoded'[i].call = calls' ]_vars

\* C8: right after set_frequency(s, e) the range is s..e, the axis has 112
\* evenly spaced points from s to e, the history and the buffer are empty,
\* every peak-hold bin is at -120 dBm, and connected is as it was.
C8_SetFrequencyTakesEffect ==
    [][ (prog = "gui" /\ last_op'.op = "set_frequency")
        => /\ start_freq' = last_op'.s
           /\ end_freq' = last_op'.e
           /\ Len(frequencies') = SweepPoints
           /\ frequencies'[1] = (SweepPoints - 1) * last_op'.s
           /\ frequencies'[SweepPoints] = (SweepPoints - 1) * last_op'.e
           /\ \A i \in 1..(SweepPoints - 1) :
                 frequencies'[i + 1] - frequencies'[i] = last_op'.e - last_op'.s
           /\ history' = << >>
           /\ Len(peak_hold') = SweepPoints
           /\ \A i \in 1..SweepPoints : peak_hold'[i] = PeakFill
           /\ buffer' = << >>
           /\ connected' = connected ]_vars

\* C8 witness: a preset was pressed while sweeps were in the history, peak
\* hold had risen and the device was marked connected
C8_Witness ==
    /\ prog = "gui" /\ last_op.op = "set_frequency" /\ ui_ops = 1
    /\ decoded # << >> /\ connected
    /\ start_freq # InitStartFreq /\ pos < Len(Stream(scn))

\* C9: connected is false from construction until the first read_data call
\* that decodes a sweep, becomes true in that call and stays true, whatever
\* reads and button presses follow.
C9_ConnectedOneWay ==
    [][ prog = "gui"
        => /\ connected' = (connected \/ Len(decoded') > Len(decoded))
           /\ connected = (decoded # << >>) ]_vars

\* C9 witness: connected is still true after a button press and a read that
\* decoded nothing
C9_Witness ==
    /\ prog = "gui" /\ connected /\ ui_ops = 1
    /\ last_op.op = "read_data" /\ decoded[Len(decoded)].call < calls

----------------------------------------------------------------------------
(* Properties of RFExplorer (live) *)

\* the comma-separated fields of the first configuration line of data: the
\* text after b'#C2-F:' up to the line terminator
FirstConfigFields(data) ==
    LET idx == Find(data, ConfigMarker, 0)
    IN  SplitOn(BeforeFirst(SliceFrom(data, idx + Len(ConfigMarker)), CRLF), Comma)

\* a decimal number, with or without a sign
IsNumber(f) ==
    LET body == IF f # << >> /\ Head(f) \in {Plus, Minus} THEN Tail(f) ELSE f
    IN  body # << >> /\ \A i \in 1..Len(body) : body[i] \in Digits

\* fewer than two fields, or a non-numeric start or end field
MalformedConfig(data) ==
    LET fields == FirstConfigFields(data)
    IN  Len(fields) < 2 \/ ~IsNumber(fields[1]) \/ ~IsNumber(fields[2])

\* the configurations carried by the well-formed configuration frames of rx:
\* b'#C2-F:', at least two fields, the first two of them frequencies in kHz,
\* and the line terminator
WellFormedConfigs(rx) ==
    { ConfigOf(DigitsValue(FirstConfigFields(SliceFrom(rx, i))[1], 0),
               DigitsValue(FirstConfigFields(SliceFrom(rx, i))[2], 0)) :
        i \in { j \in 0..(Len(rx) - Len(ConfigMarker)) :
                  /\ MatchAt(rx, ConfigMarker, j)
                  /\ Find(rx, CRLF, j) # -1
                  /\ LET fields == FirstConfigFields(SliceFrom(rx, j))
                     IN  /\ Len(fields) >= 2
                         /\ \A n \in 1..2 :
                               /\ fields[n] # << >>
                               /\ \A c \in 1..Len(fields[n]) : fields[n][c] \in Digits } }

ActiveConfig ==
    [start_freq |-> rf_start_freq, end_freq |-> rf_end_freq, step_freq |-> rf_step_freq]

\* C6: parse_config on an input whose configuration line is malformed
\* returns False and leaves start_freq, end_freq and step_freq as they were,
\* with step_freq = (end_freq - start_freq) / sweep_points.
C6_MalformedConfigNoEffect ==
    [][ (/\ prog = "live" /\ last_op'.op = "poll" /\ last_op'.parsed
         /\ Find(buffer', ConfigMarker, 0) # -1
         /\ MalformedConfig(buffer'))
        => /\ last_op'.ret = FALSE
           /\ rf_start_freq' = rf_start_freq
           /\ rf_end_freq' = rf_end_freq
           /\ rf_step_freq' = rf_step_freq
           /\ rf_step_freq' = rf_end_freq' - rf_start_freq' ]_vars

\* C7: after init_device the active configuration is the default exactly if
\* no well-formed configuration frame arrived in the initialization window,
\* and otherwise it is the configuration a received frame carries.
C7_InitFallback ==
    (prog = "live" /\ last_op.op = "init_device")
    => LET wf == WellFormedConfigs(InitRx(scn))
       IN  /\ (ActiveConfig = DefaultConfig) <=> (wf = { })
           /\ wf # { } => ActiveConfig \in wf

----------------------------------------------------------------------------
(* Properties of the buffer cap *)

PollMaxLen == IF prog = "gui" THEN GuiMaxLen ELSE IF prog = "live" THEN LiveMaxLen ELSE RecMaxLen

PollRetainLen ==
    IF prog = "gui" THEN GuiRetainLen ELSE IF prog = "live" THEN LiveRetainLen ELSE RecRetainLen

\* the last n bytes the device has sent to the polling loop
LastReceived(n) == SubSeq(Stream(scn), pos - n + 1, pos)

\* C10: when the append makes the buffer longer than max_len the cap step
\* leaves exactly its last retain_len bytes, otherwise it leaves the buffer
\* as it is; the buffer is never longer than max_len when a poll ends.
C10_BufferCap ==
    (prog \in {"gui", "live", "record"} /\ calls >= 1)
    => /\ appended_len > PollMaxLen => capped = LastReceived(PollRetainLen)
       /\ appended_len <= PollMaxLen => capped = LastReceived(appended_len)
       /\ Len(buffer) <= PollMaxLen

\* C10 witness: the GUI's buffer was cut to its last 4000 bytes in a poll
\* that followed an earlier one, and a sweep of the retained part was decoded
C10_Witness ==
    /\ prog = "gui" /\ calls >= 2 /\ appended_len > GuiMaxLen
    /\ Len(capped) = GuiRetainLen /\ decoded # << >>

----------------------------------------------------------------------------
(* Properties of the latest-only parsers *)

\* the positions of the marker bytes '$', 'S' in data
MarkerPositions(data) ==
    { i \in 0..(Len(data) - 2) : data[i + 1] = Dollar /\ data[i + 2] = CharS }

\* C5: when the last marker of the buffer is followed by a complete frame
\* (at least 115 bytes from the marker on, the buffer may end with the
\* frame), parse_sweep returns the decoding of that frame's 112 readings.
C5_LatestFrameDecoded ==
    (prog = "parse_sweep" /\ last_op.op = "parse_sweep")
    => \A m \in MarkerPositions(buffer) :
          (/\ \A o \in MarkerPositions(buffer) : o <= m
           /\ Len(buffer) >= m + FrameLen)
          => /\ last_op.out.ok
             /\ last_op.out.sweep = [i \in 1..SweepPoints |-> -buffer[m + PayloadStart + i]]

----------------------------------------------------------------------------
(* Properties of the peak hold *)

\* the bins of a sweep
Bins == 1..SweepPoints

\* C11: no read_data call lowers any bin of peak_hold; a bin goes down only
\* in a step of the Reset Peak button or of set_frequency.
C11_PeakHoldMonotone ==
    [][ prog = "gui" =>
          /\ last_op'.op = "read_data" => \A i \in Bins : peak_hold'[i] >= peak_hold[i]
          /\ (\E i \in Bins : peak_hold'[i] < peak_hold[i])
                => last_op'.op \in {"reset_peak", "set_frequency"} ]_vars

\* C11 witness: a later read_data call decoded a sweep that is lower than the
\* held peak in some bin and higher in another
C11_Witness ==
    /\ prog = "gui" /\ last_op.op = "read_data" /\ decoded # << >>
    /\ decoded[Len(decoded)].call = calls /\ decoded[1].call < calls
    /\ \E i \in Bins : current_sweep[i] < peak_hold[i]
    /\ \E i \in Bins : current_sweep[i] = peak_hold[i] /\ peak_hold[i] > PeakFill

\* the greatest element of a set of numbers
MaxOf(S) == CHOOSE x \in S : \A y \in S : x >= y

\* reading i of the frame that starts at stream offset at, in half dB
ReadingAt(at, i) == -Stream(scn)[at + PayloadStart + i]

\* C12: once a sweep has been decoded since the last reset, every bin of
\* peak_hold is the maximum of that bin's reading over the sweeps decoded
\* since the reset, for readings of every byte value 0..255.
C12_PeakHoldRunningMax ==
    (prog = "gui" /\ Len(decoded) > peak_base)
    => \A i \in Bins :
          peak_hold[i] = MaxOf({ ReadingAt(decoded[j].at, i) : j \in (peak_base + 1)..Len(decoded) })

----------------------------------------------------------------------------
(* Properties of the recorder *)

\* C13: once the requested duration has passed on the wall clock, record()
\* eventually leaves its loop and returns, whatever the device sends.
C13_RecordTerminates ==
    (prog = "record" /\ pc = "recording" /\ clock >= TotalSeconds) ~> (pc = "done")

====
